---- MODULE Spec2Model ----
(***************************************************************************)
(* SearXNG MCP server: the gateway (SearXNGClient, searxng_client.py) and  *)
(* the tool handler (SearXNGMCPServer, server.py).                          *)
(*                                                                         *)
(* Two specifications share the module.                                    *)
(*   UnitSpec  one direct call of SearXNGClient.search(),                   *)
(*             SearXNGClient.health_check() or                              *)
(*             SearXNGMCPServer._format_search_results() on inputs drawn    *)
(*             from bounded sets.                                           *)
(*   Spec      the server: run() and interleaved call_tool invocations.     *)
(*                                                                         *)
(* Text is a sequence of one-character strings.  A JSON value is a record  *)
(* [t, s]: t its JSON type ("absent" when the key is not there), s its     *)
(* payload.                                                                *)
(***************************************************************************)
EXTENDS Integers, Sequences, FiniteSets, TLC

VARIABLES
  max_results_limit,  \* Config.max_results_limit (read-only after load)
  input,              \* UnitSpec: the unit call to make
  call,               \* UnitSpec: the unit call made and its result
  client,             \* SearXNGMCPServer.client: 0 is None, else the id of the SearXNGClient
  created,            \* number of SearXNGClient objects constructed
  clientOpen,         \* the httpx.AsyncClient of the SearXNGClient is open
  closeCalls,         \* number of SearXNGClient.close() calls
  run_pc,             \* position of SearXNGMCPServer.run()
  exitKind,           \* how the try block of run() was left
  tasks,              \* the call_tool invocations, one record per task slot
  last,               \* the invocation that ended most recently, as the host saw it
  httpCalls,          \* number of outbound GET requests issued
  searchCalls,        \* number of SearXNGClient.search() calls made by the handler
  invoked,            \* number of invocations started
  failures            \* number of invocations that ended with an exception

vars == << max_results_limit, input, call, client, created, clientOpen,
           closeCalls, run_pc, exitKind, tasks, last, httpCalls, searchCalls,
           invoked, failures >>

unitVars == << input, call >>
serverVars == << client, created, clientOpen, closeCalls, run_pc, exitKind,
                 tasks, last, searchCalls, invoked, failures >>

(***************************************************************************)
(* Bounds of the model and constants of the program.                       *)
(***************************************************************************)
MaxLimit == 2          \* configured ceilings 1..MaxLimit, and the default 10
MaxElems == 3          \* elements in a backend "results" array
MaxItems == 2          \* items of a SearchResults handed to the formatter
MaxInvokes == 2        \* invocations started in one run of the server
NumTasks == 2          \* invocations in flight at once

DefaultMaxResults == 10
ContentLimit == 300
LimitCeiling == 100

Min(a, b) == IF a < b THEN a ELSE b

Filler(n) == [i \in 1..n |-> IF i % 2 = 1 THEN "a" ELSE "b"]

(***************************************************************************)
(* Configuration: max_results_limit is an integer in (0, 100].            *)
(***************************************************************************)
Limits == { l \in (1..MaxLimit) \cup {DefaultMaxResults} : l > 0 /\ l <= LimitCeiling }

(***************************************************************************)
(* JSON values.                                                            *)
(***************************************************************************)
JAbsent == [t |-> "absent", s |-> <<>>]
JNull == [t |-> "null", s |-> <<>>]
JNum == [t |-> "num", s |-> <<>>]
JStr(s) == [t |-> "str", s |-> s]
JList(items) == [t |-> "list", s |-> items]

\* The max_results argument: None, or a Python value with its numeric value n.
None == [t |-> "none", n |-> 0]
PyInt(n) == [t |-> "int", n |-> n]
PyBool(b) == [t |-> "bool", n |-> IF b THEN 1 ELSE 0]
PyFloat == [t |-> "float", n |-> 2]     \* 2.5
PyStr == [t |-> "str", n |-> 0]         \* "5"
PyNull == [t |-> "null", n |-> 0]       \* explicit JSON null
ArgAbsent == [t |-> "absent", n |-> 0]  \* key not in the arguments

(***************************************************************************)
(* Exceptions: the class hierarchy of searxng_client.py lines 14-31.       *)
(***************************************************************************)
ClientErrors == {"SearXNGConnectionError", "SearXNGTimeoutError", "SearXNGResponseError"}

IsInstance(kind, cls) ==
  CASE cls = "Exception" -> kind # "ok"
    [] cls = "SearXNGClientError" -> kind \in ClientErrors \cup {"SearXNGClientError"}
    [] OTHER -> kind = cls

NoValue == [query |-> <<>>, results |-> <<>>, number_of_results |-> 0]

Raise(kind, msg, http) == [kind |-> kind, msg |-> msg, http |-> http, value |-> NoValue]
Return(value, http) == [kind |-> "ok", msg |-> "", http |-> http, value |-> value]

(***************************************************************************)
(* SearXNGClient.search(), lines 132-231.                                  *)
(***************************************************************************)
\* Mutant of ExceedsLimit: compares with the schema maximum instead of the configured limit.
ExceedsLimit_Hardcoded(max_results, limit) ==
  max_results.t # "none" /\ max_results.n > LimitCeiling

\* line 133: max_results is not None and max_results > self.max_results_limit
ExceedsLimit(max_results, limit) == max_results.t # "none" /\ max_results.n > limit

\* Mutant of search_transport: a timed-out GET is sent a second time before giving up.
search_transport_Retry(transport) ==
  CASE transport = "timeout" -> Raise("SearXNGTimeoutError", "timed_out", 2)
    [] transport = "connect_error" -> Raise("SearXNGConnectionError", "unable_to_connect", 1)
    [] OTHER -> Raise("SearXNGConnectionError", "http_error", 1)

\* lines 161-176: the except clauses around client.get / raise_for_status.
\* transport: "ok", "timeout" (httpx.TimeoutException), "connect_error"
\* (httpx.ConnectError), "http_status" (HTTPStatusError of raise_for_status),
\* "protocol_error" (any other httpx.HTTPError).
search_transport(transport) ==
  CASE transport = "timeout" -> Raise("SearXNGTimeoutError", "timed_out", 1)
    [] transport = "connect_error" -> Raise("SearXNGConnectionError", "unable_to_connect", 1)
    [] OTHER -> Raise("SearXNGConnectionError", "http_error", 1)

\* line 201: all(k in result_data for k in ["title", "url", "content"]).
\* "raise": `in` on a number, a boolean or null raises TypeError.
\* A string element holds a key only as a substring; the strings drawn hold none.
RequiredKeys(e) ==
  CASE e.t = "scalar" -> "raise"
    [] e.t = "string" -> "no"
    [] OTHER -> IF e.title.t # "absent" /\ e.url.t # "absent" /\ e.content.t # "absent"
                THEN "yes" ELSE "no"

\* models.py lines 19-29: pydantic validation of SearchResult(...).
ValidResult(e) ==
  /\ e.title.t = "str"
  /\ e.url.t = "str"
  /\ e.content.t = "str"
  /\ e.publishedDate.t \in {"absent", "null", "str"}
  /\ e.engines.t \in {"absent", "list"}

\* lines 205-211: .get("publishedDate") is None when absent, .get("engines", []).
SearchResult(e) ==
  [ title |-> e.title.s,
    url |-> e.url.s,
    content |-> e.content.s,
    publishedDate |-> IF e.publishedDate.t = "str"
                      THEN [isNone |-> FALSE, s |-> e.publishedDate.s]
                      ELSE [isNone |-> TRUE, s |-> <<>>],
    engines |-> IF e.engines.t = "list" THEN e.engines.s ELSE <<>> ]

\* lines 198-212: the loop; ok = FALSE when an exception left it.
RECURSIVE ParseItems(_)
ParseItems(items) ==
  IF items = <<>> THEN [ok |-> TRUE, acc |-> <<>>]
  ELSE LET e == Head(items)
           req == RequiredKeys(e)
       IN IF req = "raise" THEN [ok |-> FALSE, acc |-> <<>>]
          ELSE IF req = "no" THEN ParseItems(Tail(items))
          ELSE IF ~ValidResult(e) THEN [ok |-> FALSE, acc |-> <<>>]
          ELSE LET rest == ParseItems(Tail(items))
               IN [ok |-> rest.ok,
                   acc |-> IF rest.ok THEN <<SearchResult(e)>> \o rest.acc ELSE <<>>]

\* Mutant of Truncate: the `max_results > 0` test is dropped, so results[:0] and
\* results[:-1] cut the list.
Truncate_NoPositiveTest(results, max_results) ==
  IF max_results.t = "none" THEN results
  ELSE IF max_results.n >= 0
       THEN SubSeq(results, 1, Min(max_results.n, Len(results)))
       ELSE SubSeq(results, 1, Len(results) + max_results.n)

\* lines 215-216
Truncate(results, max_results) ==
  IF max_results.t # "none" /\ max_results.n > 0
  THEN SubSeq(results, 1, Min(max_results.n, Len(results)))
  ELSE results

\* lines 188, 192: `"query" in data`; "raise" when data is a number, boolean or null.
HasKey(data, k) ==
  IF data.t = "scalar" THEN "raise"
  ELSE IF k \in data.has THEN "yes" ELSE "no"

\* lines 196-231
parse_results(data, max_results) ==
  IF data.t # "object" \/ data.results.t \notin {"list", "str"}
  THEN Raise("SearXNGResponseError", "failed_to_parse", 1)
  ELSE LET parsed == ParseItems(data.results.s)
       IN IF ~parsed.ok \/ data.query.t # "str"
          THEN Raise("SearXNGResponseError", "failed_to_parse", 1)
          ELSE LET results == Truncate(parsed.acc, max_results)
               IN Return([query |-> data.query.s,
                          results |-> results,
                          number_of_results |-> Len(results)], 1)

\* lines 178-194
validate_fields(data, max_results) ==
  IF data.t = "unparseable" THEN Raise("SearXNGResponseError", "malformed_json", 1)
  ELSE IF HasKey(data, "query") = "raise" THEN Raise("TypeError", "not_iterable", 1)
  ELSE IF HasKey(data, "query") = "no" THEN Raise("SearXNGResponseError", "missing_query", 1)
  ELSE IF HasKey(data, "results") = "no" THEN Raise("SearXNGResponseError", "missing_results", 1)
  ELSE parse_results(data, max_results)

\* lines 155-231: everything after the request was issued.
search_response(max_results, transport, data) ==
  IF transport # "ok" THEN search_transport(transport)
  ELSE validate_fields(data, max_results)

search(limit, max_results, transport, data) ==
  IF ExceedsLimit(max_results, limit)
  THEN Raise("ValueError", "exceeds_limit", 0)
  ELSE search_response(max_results, transport, data)

(***************************************************************************)
(* SearXNGClient.health_check(), lines 81-104.                             *)
(***************************************************************************)
health_check(transport) ==
  CASE transport = "ok" -> Return(NoValue, 1)
    [] transport = "timeout" -> Raise("SearXNGTimeoutError", "timed_out", 1)
    [] transport = "connect_error" -> Raise("SearXNGConnectionError", "unable_to_connect", 1)
    [] OTHER -> Raise("SearXNGConnectionError", "http_error", 1)

(***************************************************************************)
(* SearXNGMCPServer._format_search_results(), server.py lines 183-219.     *)
(* The text is the sequence of its lines; a line is [k, i, s]: its kind,   *)
(* the number it prints and the text it prints.                            *)
(***************************************************************************)
Line(k, i, s) == [k |-> k, i |-> i, s |-> s]

Ellipsis == <<".", ".", ".">>

\* Mutant of ClipContent: the ellipsis is appended whether or not content was cut.
ClipContent_AlwaysEllipsis(content) ==
  SubSeq(content, 1, Min(ContentLimit, Len(content))) \o Ellipsis

\* lines 206-208: content[:300], plus "..." when len(content) > 300
ClipContent(content) ==
  IF Len(content) > ContentLimit
  THEN SubSeq(content, 1, ContentLimit) \o Ellipsis
  ELSE SubSeq(content, 1, Min(ContentLimit, Len(content)))

\* line 215: ', '.join(result.engines)
RECURSIVE JoinEngines(_)
JoinEngines(engines) ==
  IF engines = <<>> THEN <<>>
  ELSE IF Len(engines) = 1 THEN Head(engines)
  ELSE Head(engines) \o <<",", " ">> \o JoinEngines(Tail(engines))

\* line 204: `if result.content:` is false for the empty string
HasContentLine(result) == result.content # <<>>

\* lines 201-217: the lines of result number i
FormatItem(i, result) ==
  << Line("title", i, result.title), Line("url", i, result.url) >>
  \o (IF HasContentLine(result)
      THEN << Line("content", i, ClipContent(result.content)) >> ELSE <<>>)
  \o (IF ~result.publishedDate.isNone /\ result.publishedDate.s # <<>>
      THEN << Line("published", i, result.publishedDate.s) >> ELSE <<>>)
  \o (IF result.engines # <<>>
      THEN << Line("sources", i, JoinEngines(result.engines)) >> ELSE <<>>)
  \o << Line("blank", i, <<>>) >>

\* lines 200-217: enumerate(results.results, 1), from item number i on
RECURSIVE FormatFrom(_, _)
FormatFrom(i, items) ==
  IF items = <<>> THEN <<>>
  ELSE FormatItem(i, Head(items)) \o FormatFrom(i + 1, Tail(items))

_format_search_results(results) ==
  IF results.results = <<>>
  THEN << Line("no_results", 0, results.query) >>
  ELSE << Line("header", 0, results.query),
          Line("found", results.number_of_results, <<>>),
          Line("blank", 0, <<>>) >>
       \o FormatFrom(1, results.results)

(***************************************************************************)
(* Inputs of the unit calls.                                               *)
(***************************************************************************)
Obj(title, url, content, publishedDate, engines) ==
  [t |-> "object", title |-> title, url |-> url, content |-> content,
   publishedDate |-> publishedDate, engines |-> engines]

EGoodA == Obj(JStr(<<"A">>), JStr(<<"u", "A">>), JStr(<<"x">>), JAbsent, JAbsent)
EGoodB == Obj(JStr(<<"B">>), JStr(<<"u", "B">>), JStr(<<"y">>), JStr(<<"d">>),
              JList(<< <<"g">> >>))
EGoodC == Obj(JStr(<<"C">>), JStr(<<"u", "C">>), JStr(<<>>), JNull, JList(<<>>))
ENoTitle == Obj(JAbsent, JStr(<<"u">>), JStr(<<"x">>), JAbsent, JAbsent)
ENoUrl == Obj(JStr(<<"D">>), JAbsent, JStr(<<"x">>), JAbsent, JAbsent)
ENoContent == Obj(JStr(<<"E">>), JStr(<<"u">>), JAbsent, JAbsent, JList(<< <<"g">> >>))
ENullTitle == Obj(JNull, JStr(<<"u">>), JStr(<<"x">>), JAbsent, JAbsent)
ENumContent == Obj(JStr(<<"F">>), JStr(<<"u">>), JNum, JAbsent, JAbsent)
ENullEngines == Obj(JStr(<<"G">>), JStr(<<"u">>), JStr(<<"x">>), JAbsent, JNull)
ENumDate == Obj(JStr(<<"H">>), JStr(<<"u">>), JStr(<<"x">>), JNum, JAbsent)
EScalar == [t |-> "scalar", title |-> JAbsent, url |-> JAbsent, content |-> JAbsent,
            publishedDate |-> JAbsent, engines |-> JAbsent]
EString == [t |-> "string", title |-> JAbsent, url |-> JAbsent, content |-> JAbsent,
            publishedDate |-> JAbsent, engines |-> JAbsent]

CoreElements == {EGoodA, EGoodB, EGoodC, ENoTitle, ENullTitle, EScalar}

RECURSIVE SeqsUpTo(_, _)
SeqsUpTo(S, n) ==
  IF n = 0 THEN { <<>> }
  ELSE LET shorter == SeqsUpTo(S, n - 1)
       IN shorter \cup { Append(q, x) : q \in { r \in shorter : Len(r) = n - 1 }, x \in S }

QueryText == <<"q">>

\* A parsed body: has = the keys k for which `k in data` is true.
ObjBody(query, results) ==
  [t |-> "object",
   has |-> (IF query.t # "absent" THEN {"query"} ELSE {})
           \cup (IF results.t # "absent" THEN {"results"} ELSE {}),
   query |-> query, results |-> results]
OtherBody(t, has) == [t |-> t, has |-> has, query |-> JAbsent, results |-> JAbsent]

ListBody(items) == ObjBody(JStr(QueryText), JList(items))

ExtraLists ==
  { <<ENoUrl>>, <<ENoContent>>, <<EString>>, <<ENullEngines>>, <<ENumContent>>,
    <<ENumDate>>, <<EGoodA, ENoUrl, EGoodB>>, <<EGoodA, ENoContent, EGoodB>>,
    <<EString, EGoodB>>, <<EGoodA, ENullEngines>>, <<EGoodA, ENumContent>>,
    <<EGoodB, ENumDate>> }

ShapeBodies ==
  { OtherBody("unparseable", {}),
    OtherBody("scalar", {}),                       \* 5, true, null
    OtherBody("string", {}),                       \* "abc"
    OtherBody("string", {"query", "results"}),     \* "query results"
    OtherBody("array", {}),                        \* []
    OtherBody("array", {"query"}),                 \* ["query"]
    OtherBody("array", {"query", "results"}),      \* ["query", "results"]
    ObjBody(JAbsent, JAbsent),                     \* {}
    ObjBody(JAbsent, JList(<<EGoodA>>)),
    ObjBody(JStr(QueryText), JAbsent),
    ObjBody(JNull, JList(<<EGoodA>>)),             \* "query": null
    ObjBody(JStr(QueryText), JNull),               \* "results": null
    ObjBody(JStr(QueryText), [t |-> "str", s |-> <<EString, EString>>]) }  \* "results": "ab"

Bodies ==
  { ListBody(items) : items \in SeqsUpTo(CoreElements, MaxElems) \cup ExtraLists }
  \cup ShapeBodies

Transports == {"ok", "timeout", "connect_error", "http_status", "protocol_error"}

SearchArgs ==
  {None} \cup { PyInt(n) : n \in (-1 .. MaxLimit + 1)
                               \cup {DefaultMaxResults, DefaultMaxResults + 1} }

SearchInputs ==
  { [op |-> "search", max_results |-> m, transport |-> "ok", data |-> d] :
      m \in SearchArgs, d \in Bodies }
  \cup { [op |-> "search", max_results |-> m, transport |-> tr, data |-> ListBody(<<EGoodA>>)] :
           m \in SearchArgs, tr \in Transports \ {"ok"} }

HealthInputs == { [op |-> "health_check", transport |-> tr] : tr \in Transports }

Item(title, content, publishedDate, engines) ==
  [title |-> title, url |-> <<"u">> \o title, content |-> content,
   publishedDate |-> publishedDate, engines |-> engines]
NoDate == [isNone |-> TRUE, s |-> <<>>]
Date(s) == [isNone |-> FALSE, s |-> s]

FormatItems ==
  { Item(<<"A">>, Filler(1), NoDate, <<>>),
    Item(<<"B">>, Filler(ContentLimit), Date(<<"d">>), << <<"g">> >>),
    Item(<<"C">>, Filler(ContentLimit + 1), NoDate, << <<"g">>, <<"h">> >>),
    Item(<<"D">>, <<>>, Date(<<>>), <<>>) }

FormatInputs ==
  { [op |-> "format",
     results |-> [query |-> QueryText, results |-> items, number_of_results |-> Len(items)]] :
      items \in SeqsUpTo(FormatItems, MaxItems) }

NoInput == [op |-> "none"]
NoCall == [op |-> "none"]

(***************************************************************************)
(* UnitSpec: one unit call on a SearXNGClient built from the configuration *)
(* (searxng_client.py lines 43-57) and on the server's formatter.          *)
(***************************************************************************)
NoArgs == [name |-> "", query |-> JAbsent, max_results |-> ArgAbsent]
NoTask == [pc |-> "idle", args |-> NoArgs, max_results |-> None,
           createdClient |-> FALSE, clientUsed |-> 0, after |-> 0]
NoLast == [op |-> "none"]

UnitInit ==
  /\ max_results_limit \in Limits
  /\ input \in SearchInputs \cup HealthInputs \cup FormatInputs
  /\ call = NoCall
  /\ client = 1 /\ created = 1 /\ clientOpen = TRUE /\ closeCalls = 0
  /\ run_pc = "new" /\ exitKind = "none"
  /\ tasks = [t \in 1..NumTasks |-> NoTask]
  /\ last = NoLast
  /\ httpCalls = 0 /\ searchCalls = 0 /\ invoked = 0 /\ failures = 0

CallSearch ==
  /\ call.op = "none" /\ input.op = "search"
  /\ LET r == search(max_results_limit, input.max_results, input.transport, input.data)
     IN /\ call' = [op |-> "search", result |-> r,
                    httpBefore |-> httpCalls, httpAfter |-> httpCalls + r.http]
        /\ httpCalls' = httpCalls + r.http
  /\ UNCHANGED << max_results_limit, input, serverVars >>

CallHealthCheck ==
  /\ call.op = "none" /\ input.op = "health_check"
  /\ LET r == health_check(input.transport)
     IN /\ call' = [op |-> "health_check", result |-> r,
                    httpBefore |-> httpCalls, httpAfter |-> httpCalls + r.http]
        /\ httpCalls' = httpCalls + r.http
  /\ UNCHANGED << max_results_limit, input, serverVars >>

CallFormat ==
  /\ call.op = "none" /\ input.op = "format"
  /\ call' = [op |-> "format", text |-> _format_search_results(input.results)]
  /\ UNCHANGED << max_results_limit, input, serverVars, httpCalls >>

UnitNext == CallSearch \/ CallHealthCheck \/ CallFormat

UnitSpec == UnitInit /\ [][UnitNext]_vars

(***************************************************************************)
(* SearXNGMCPServer: call_tool and _handle_web_search, server.py lines     *)
(* 90-181, and run(), lines 221-238.                                       *)
(***************************************************************************)
Out(kind, msg, text) == [kind |-> kind, msg |-> msg, text |-> text]

\* line 112: `not query`: a missing key, None and "" are falsy; the values drawn
\* for query are these and a non-empty string
Truthy(query) == query.t \in {"str", "list"} /\ query.s # <<>>

\* line 115: arguments.get("max_results", 10)
GetMaxResults(arg) == IF arg.t = "absent" THEN PyInt(DefaultMaxResults) ELSE arg

\* line 121: isinstance(max_results, int); bool is a subclass of int
IsInt(v) == v.t \in {"int", "bool"}

\* lines 93-127: the message of the ValueError raised before delegation, "" when none
validate(args, limit) ==
  LET max_results == GetMaxResults(args.max_results)
  IN IF args.name # "web_search" THEN "unknown_tool"
     ELSE IF ~Truthy(args.query) THEN "query_required"
     ELSE IF ~IsInt(max_results) \/ max_results.n < 1 THEN "not_positive_integer"
     ELSE IF max_results.n > limit THEN "exceeds_limit"
     ELSE ""

\* Mutant of NeedsClient: a connection per call.
NeedsClient_Always(c) == TRUE

\* line 132: if self.client is None
NeedsClient(c) == c = 0

\* Mutant of ExceptClauses: the final `except Exception` clause is missing.
ExceptClauses_NoCatchAll ==
  << "SearXNGConnectionError", "SearXNGTimeoutError", "SearXNGResponseError",
     "SearXNGClientError" >>

\* lines 155-181: the except clauses, in order, and the message each one gives
ExceptClauses ==
  << "SearXNGConnectionError", "SearXNGTimeoutError", "SearXNGResponseError",
     "SearXNGClientError", "Exception" >>
ExceptMessages ==
  << "failed_to_connect", "timed_out", "invalid_response", "client_error",
     "unexpected_error" >>

map_exception(r) ==
  LET hits == { i \in 1..Len(ExceptClauses) : IsInstance(r.kind, ExceptClauses[i]) }
  IN IF hits = {} THEN Out(r.kind, r.msg, <<>>)
     ELSE LET first == CHOOSE i \in hits : \A j \in hits : i <= j
          IN Out("ValueError", ExceptMessages[first], <<>>)

\* lines 135-181: the try block after search() has ended with r
try_block(r) ==
  IF r.kind = "ok" THEN Out("text", "", _format_search_results(r.value))
  ELSE map_exception(r)

\* Mutant of ShouldClose: the close sits after the loop instead of in `finally`.
ShouldClose_OnlyOnReturn(c, exit) == c # 0 /\ exit = "normal"

\* lines 234-237: `if self.client:` in the finally clause of run()
ShouldClose(c, exit) == c # 0

QueryValues == { JAbsent, JNull, JStr(<<>>), JStr(QueryText) }

MaxResultsValues ==
  { ArgAbsent, PyNull, PyStr, PyFloat, PyBool(TRUE), PyBool(FALSE) }
  \cup { PyInt(n) : n \in (-1 .. MaxLimit + 1) \cup {DefaultMaxResults, DefaultMaxResults + 1} }

InvokeArgs ==
  { [name |-> "other_tool", query |-> JStr(QueryText), max_results |-> PyInt(1)] }
  \cup { [name |-> "web_search", query |-> q, max_results |-> m] :
           q \in QueryValues \ {JStr(QueryText)}, m \in {PyInt(1)} }
  \cup { [name |-> "web_search", query |-> JStr(QueryText), max_results |-> m] :
           m \in MaxResultsValues }

NoResponse == [transport |-> "none", data |-> OtherBody("unparseable", {})]

Responses ==
  { [transport |-> tr, data |-> ListBody(<<EGoodA>>)] : tr \in Transports \ {"ok"} }
  \cup { [transport |-> "ok", data |-> d] :
           d \in { ListBody(<<>>), ListBody(<<EGoodA, EGoodB, EGoodC>>),
                   ListBody(<<ENoTitle, EGoodB>>), ListBody(<<EGoodA, ENullTitle>>),
                   OtherBody("unparseable", {}), OtherBody("scalar", {}),
                   ObjBody(JAbsent, JList(<<EGoodA>>)) } }

\* after: the number of invocations that had failed when this one started
Ended(args, response, out, searched, http, createdClient, clientUsed, after) ==
  [op |-> "invoke", args |-> args, response |-> response, out |-> out,
   searched |-> searched, http |-> http, createdClient |-> createdClient,
   clientUsed |-> clientUsed, after |-> after]

\* failures after an invocation ended with out
Failed(out) == IF out.kind = "text" THEN failures ELSE failures + 1

\* searxng_client.py lines 156-159: client.get() on the AsyncClient of line 57;
\* a closed AsyncClient raises RuntimeError and sends nothing
CanSend(open) == open

Init ==
  /\ max_results_limit \in Limits
  /\ input = NoInput /\ call = NoCall
  /\ client = 0 /\ created = 0 /\ clientOpen = FALSE /\ closeCalls = 0
  /\ run_pc = "new" /\ exitKind = "none"
  /\ tasks = [t \in 1..NumTasks |-> NoTask]
  /\ last = NoLast
  /\ httpCalls = 0 /\ searchCalls = 0 /\ invoked = 0 /\ failures = 0

\* run(), lines 223-228: stdio_server() is entered, or raises
RunStart ==
  /\ run_pc = "new"
  /\ \/ run_pc' = "serving" /\ exitKind' = exitKind
     \/ run_pc' = "exiting" /\ exitKind' = "setup_error"
  /\ UNCHANGED << max_results_limit, unitVars, client, created, clientOpen, closeCalls,
                  tasks, last, httpCalls, searchCalls, invoked, failures >>

\* run(), lines 229-233: self.server.run() returns or raises; the invocations
\* still waiting for the backend are abandoned
LoopExit ==
  /\ run_pc = "serving"
  /\ run_pc' = "exiting"
  /\ exitKind' \in {"normal", "loop_error"}
  /\ tasks' = [t \in 1..NumTasks |-> NoTask]
  /\ UNCHANGED << max_results_limit, unitVars, client, created, clientOpen, closeCalls,
                  last, httpCalls, searchCalls, invoked, failures >>

\* run(), lines 234-238, and SearXNGClient.close(), lines 67-69
RunFinally ==
  /\ run_pc = "exiting"
  /\ run_pc' = "ended"
  /\ IF ShouldClose(client, exitKind)
     THEN clientOpen' = FALSE /\ closeCalls' = closeCalls + 1
     ELSE UNCHANGED << clientOpen, closeCalls >>
  /\ UNCHANGED << max_results_limit, unitVars, client, created, exitKind, tasks, last,
                  httpCalls, searchCalls, invoked, failures >>

\* call_tool / _handle_web_search up to the first suspension: lines 93-133,
\* then search() lines 132-159 up to the awaited GET
InvokeStart(t, args) ==
  /\ run_pc = "serving"
  /\ tasks[t].pc = "idle"
  /\ \A u \in 1..(t - 1) : tasks[u].pc # "idle"
  /\ invoked < MaxInvokes
  /\ invoked' = invoked + 1
  /\ LET msg == validate(args, max_results_limit)
         max_results == GetMaxResults(args.max_results)
         new == NeedsClient(client)
         c == IF new THEN created + 1 ELSE client
         early == IF ExceedsLimit(max_results, max_results_limit)
                  THEN Raise("ValueError", "exceeds_limit", 0)
                  ELSE Raise("RuntimeError", "client_closed", 0)
     IN IF msg # ""
        THEN /\ last' = Ended(args, NoResponse, Out("ValueError", msg, <<>>),
                              FALSE, 0, FALSE, 0, failures)
             /\ failures' = failures + 1
             /\ UNCHANGED << client, created, clientOpen, tasks, httpCalls, searchCalls >>
        ELSE /\ client' = c
             /\ created' = IF new THEN created + 1 ELSE created
             /\ clientOpen' = IF new THEN TRUE ELSE clientOpen
             /\ searchCalls' = searchCalls + 1
             /\ IF ExceedsLimit(max_results, max_results_limit) \/ ~CanSend(clientOpen')
                THEN /\ last' = Ended(args, NoResponse, try_block(early),
                                      TRUE, 0, new, c, failures)
                     /\ failures' = Failed(try_block(early))
                     /\ UNCHANGED << tasks, httpCalls >>
                ELSE /\ tasks' = [tasks EXCEPT ![t] =
                                    [pc |-> "awaiting", args |-> args,
                                     max_results |-> max_results,
                                     createdClient |-> new, clientUsed |-> c,
                                     after |-> failures]]
                     /\ httpCalls' = httpCalls + 1
                     /\ UNCHANGED << last, failures >>
  /\ UNCHANGED << max_results_limit, unitVars, closeCalls, run_pc, exitKind >>

\* the GET ends: search() lines 160-231, then _handle_web_search lines 145-181
InvokeComplete(t, response) ==
  /\ run_pc = "serving"
  /\ tasks[t].pc = "awaiting"
  /\ LET r == search_response(tasks[t].max_results, response.transport, response.data)
     IN /\ last' = Ended(tasks[t].args, response, try_block(r), TRUE, r.http,
                         tasks[t].createdClient, tasks[t].clientUsed, tasks[t].after)
        /\ failures' = Failed(try_block(r))
        /\ httpCalls' = httpCalls + (r.http - 1)
  /\ tasks' = [tasks EXCEPT ![t] = NoTask]
  /\ UNCHANGED << max_results_limit, unitVars, client, created, clientOpen, closeCalls,
                  run_pc, exitKind, searchCalls, invoked >>

Invoke == \E t \in 1..NumTasks, args \in InvokeArgs : InvokeStart(t, args)
Complete == \E t \in 1..NumTasks, response \in Responses : InvokeComplete(t, response)

Next == RunStart \/ LoopExit \/ RunFinally \/ Invoke \/ Complete

Spec == Init /\ [][Next]_vars

(***************************************************************************)
(* The claims.                                                             *)
(***************************************************************************)
AboveCeiling == input.max_results.t # "none" /\ input.max_results.n > max_results_limit

\* An element that has title, url and content.
HasAllThree(e) == e.title.t # "absent" /\ e.url.t # "absent" /\ e.content.t # "absent"

\* The length the claims give the returned sequence, for n accepted elements.
ClaimedLength(max_results, n) ==
  IF max_results.t # "none" /\ max_results.n > 0 THEN Min(max_results.n, n) ELSE n

\* C1 (UnitSpec): search() with max_results above the configured ceiling fails
\* with ValueError and issues no HTTP request: the count of requests is the
\* same after the call as before it.
C1_NoRequestAboveCeiling ==
  (call.op = "search" /\ AboveCeiling) =>
    /\ call.result.kind = "ValueError"
    /\ call.httpAfter = call.httpBefore
    /\ httpCalls = call.httpBefore

C1_Witness ==
  /\ call.op = "search" /\ AboveCeiling
  /\ input.transport = "ok" /\ input.data.t = "object"
  /\ call.result.kind = "ValueError" /\ httpCalls = 0

\* C3 (UnitSpec): in health_check() and search() a transport failure is mapped
\* to one of three distinct kinds: a connection that cannot be established to
\* ConnectionFailure, a timeout to TimeoutFailure, and any other transport
\* error (a non-success status, a protocol error) to a third kind that is
\* not ConnectionFailure.
C3_ThreeTransportKinds ==
  (call.op \in {"search", "health_check"} /\ call.result.http = 1
     /\ input.transport # "ok") =>
    CASE input.transport = "connect_error" -> call.result.kind = "SearXNGConnectionError"
      [] input.transport = "timeout" -> call.result.kind = "SearXNGTimeoutError"
      [] OTHER -> call.result.kind \notin
                    {"ok", "SearXNGConnectionError", "SearXNGTimeoutError"}

\* C4 (UnitSpec): for every SearchResults that search() returns,
\* number_of_results is the length of the returned results; with max_results
\* given and positive the results are the first min(max_results, n) of the n
\* elements that have title, url and content, in backend order, so never more
\* than max_results; with max_results None or not positive they are all n.
C4_CountAndPrefix ==
  (call.op = "search" /\ call.result.kind = "ok") =>
    LET v == call.result.value
        acc == SelectSeq(input.data.results.s, HasAllThree)
        k == ClaimedLength(input.max_results, Len(acc))
    IN /\ v.number_of_results = Len(v.results)
       /\ Len(v.results) = k
       /\ \A i \in 1..k : /\ v.results[i].title = acc[i].title.s
                          /\ v.results[i].url = acc[i].url.s
                          /\ v.results[i].content = acc[i].content.s
       /\ (input.max_results.t # "none" /\ input.max_results.n > 0
             => Len(v.results) <= input.max_results.n)

C4_Witness ==
  /\ call.op = "search" /\ call.result.kind = "ok"
  /\ input.max_results = PyInt(2)
  /\ input.data.results.s = <<EGoodA, EGoodB, EGoodC>>
  /\ call.result.value.number_of_results = 2
  /\ call.result.value.results[2].title = <<"B">>

\* The SearchResult the claims give for an accepted element.
ClaimedItem(e) ==
  [title |-> e.title.s, url |-> e.url.s, content |-> e.content.s,
   publishedDate |-> IF e.publishedDate.t = "str" THEN Date(e.publishedDate.s) ELSE NoDate,
   engines |-> IF e.engines.t = "list" THEN e.engines.s ELSE <<>>]

\* C6 (UnitSpec): for every backend response with a top-level query and
\* results, the call does not fail: every element lacking title, url or
\* content is skipped, every element having all three is in the output in
\* backend order (up to the cut at max_results), with publishedDate None and
\* engines empty when absent; one bad element never rejects the response.
C6_Leniency ==
  (call.op = "search" /\ ~AboveCeiling /\ input.transport = "ok"
     /\ input.data.t = "object" /\ input.data.query.t = "str"
     /\ input.data.results.t = "list") =>
    /\ call.result.kind = "ok"
    /\ LET acc == SelectSeq(input.data.results.s, HasAllThree)
           k == ClaimedLength(input.max_results, Len(acc))
       IN /\ Len(call.result.value.results) = k
          /\ \A i \in 1..k : call.result.value.results[i] = ClaimedItem(acc[i])

\* A body that carries top-level field k.
CarriesField(data, k) ==
  data.t = "object" /\ (IF k = "query" THEN data.query.t ELSE data.results.t) # "absent"

\* C7 (UnitSpec): when the transport succeeded, a body that is not JSON, and
\* every JSON body (object, array, scalar, null) without a top-level query or
\* results field, makes search() fail with SearXNGResponseError and no other
\* kind, the message naming the missing field (query when both are missing).
C7_MalformedOnly ==
  (call.op = "search" /\ ~AboveCeiling /\ input.transport = "ok"
     /\ (input.data.t = "unparseable" \/ ~CarriesField(input.data, "query")
           \/ ~CarriesField(input.data, "results"))) =>
    /\ call.result.kind = "SearXNGResponseError"
    /\ input.data.t # "unparseable" =>
         call.result.msg = (IF ~CarriesField(input.data, "query")
                            THEN "missing_query" ELSE "missing_results")

\* The content line the claims give for a content.
ClaimedContent(content) ==
  IF Len(content) <= ContentLimit THEN content
  ELSE SubSeq(content, 1, ContentLimit) \o <<".", ".", ".">>

LinesAt(text, k, i) == { p \in 1..Len(text) : text[p].k = k /\ text[p].i = i }
PosOf(text, k, i) == CHOOSE p \in LinesAt(text, k, i) : TRUE

\* The rendering of items in text: every item, in order, numbered from 1, with
\* one title line, one URL line and, for the items in withContent, one content
\* line, and no content line for the others.
RendersItems(text, items, withContent) ==
  /\ \A i \in 1..Len(items) :
       /\ Cardinality(LinesAt(text, "title", i)) = 1
       /\ Cardinality(LinesAt(text, "url", i)) = 1
       /\ Cardinality(LinesAt(text, "blank", i)) = 1
       /\ text[PosOf(text, "title", i)].s = items[i].title
       /\ text[PosOf(text, "url", i)].s = items[i].url
       /\ PosOf(text, "url", i) = PosOf(text, "title", i) + 1
       /\ PosOf(text, "url", i) < PosOf(text, "blank", i)
       /\ i < Len(items) => PosOf(text, "blank", i) < PosOf(text, "title", i + 1)
       /\ IF i \in withContent
          THEN /\ Cardinality(LinesAt(text, "content", i)) = 1
               /\ PosOf(text, "content", i) = PosOf(text, "url", i) + 1
               /\ text[PosOf(text, "content", i)].s = ClaimedContent(items[i].content)
          ELSE LinesAt(text, "content", i) = {}
  /\ \A p \in 1..Len(text) :
       text[p].k \in {"title", "url", "content"} => text[p].i \in 1..Len(items)

\* C8 as stated (UnitSpec): a non-empty SearchResults renders every item, in
\* order, numbered from 1, each with a title line, a URL line and a content
\* line showing the content unchanged up to 300 characters and its first 300
\* characters plus "..." beyond; an empty one renders exactly the
\* "No results found" line.
C8_EveryItemHasContentLine ==
  call.op = "format" =>
    IF input.results.results = <<>>
    THEN call.text = << Line("no_results", 0, input.results.query) >>
    ELSE RendersItems(call.text, input.results.results, 1..Len(input.results.results))

\* C8 as amended (UnitSpec): as C8, except that the content line is rendered
\* for the items whose content is not the empty string; an item with empty
\* content gets a title line and a URL line and no content line.
C8_ContentLineWhenNonEmpty ==
  call.op = "format" =>
    IF input.results.results = <<>>
    THEN call.text = << Line("no_results", 0, input.results.query) >>
    ELSE RendersItems(call.text, input.results.results,
                      { i \in 1..Len(input.results.results) :
                          input.results.results[i].content # <<>> })

C8_Witness ==
  /\ call.op = "format"
  /\ Len(input.results.results) = 2
  /\ Len(input.results.results[1].content) = ContentLimit + 1
  /\ input.results.results[2].content = <<>>
  /\ Len(call.text[PosOf(call.text, "content", 1)].s) = ContentLimit + 3
  /\ LinesAt(call.text, "content", 2) = {}

\* C2 (Spec): an invocation never ends with an internal failure kind: whatever
\* search() did, the host sees a text response or a ValueError.
C2_OnlyValueErrorEscapes ==
  last.op = "invoke" => last.out.kind \in {"text", "ValueError"}

C2_Witness ==
  /\ last.op = "invoke" /\ last.searched
  /\ last.response.transport = "ok" /\ last.response.data.t = "scalar"
  /\ last.out.kind = "ValueError" /\ last.out.msg = "unexpected_error"

\* JSON typing of the max_results argument: a positive integer, or absent
\* (the default 10).
PositiveInteger(arg) == arg.t = "absent" \/ (arg.t = "int" /\ arg.n >= 1)
ClaimedValue(arg) == IF arg.t = "absent" THEN DefaultMaxResults ELSE arg.n

\* C5 (Spec): a web_search invocation whose query is absent or empty, or whose
\* max_results is not a positive integer (zero, negative, not an integer) or is
\* above the ceiling, fails with ValueError before delegation: search() is not
\* called, no request is issued, no connection is created by it.
C5_RejectedBeforeDelegation ==
  (last.op = "invoke" /\ last.args.name = "web_search"
     /\ (\/ last.args.query.t # "str" \/ last.args.query.s = <<>>
         \/ ~PositiveInteger(last.args.max_results)
         \/ ClaimedValue(last.args.max_results) > max_results_limit)) =>
    /\ last.out.kind = "ValueError"
    /\ ~last.searched /\ last.http = 0 /\ ~last.createdClient

\* C9 (Spec): the connection is created at most once: there is none until an
\* invocation has passed validation, that invocation creates it, and every
\* invocation that passed validation, ended or in flight, used that one.
C9_OneConnection ==
  /\ created <= 1
  /\ client = created
  /\ (client = 0) <=> (searchCalls = 0)
  /\ \A t \in 1..NumTasks : tasks[t].pc = "awaiting" => tasks[t].clientUsed = 1
  /\ (last.op = "invoke" /\ last.searched) => last.clientUsed = 1
  /\ (last.op = "invoke" /\ ~last.searched) => ~last.createdClient

C9_Witness ==
  /\ last.op = "invoke" /\ last.searched /\ last.out.kind = "ValueError"
  /\ ~last.createdClient
  /\ \E t \in 1..NumTasks : tasks[t].pc = "awaiting" /\ tasks[t].createdClient
  /\ searchCalls = 2 /\ created = 1

\* C10 (Spec): when run() has ended, by return of the loop, by an exception of
\* the loop or of the transport setup, the connection has been closed exactly
\* once if it was created and is no longer open, and close() was not called if
\* it was never created; close() is not called before.
C10_ClosedOnEveryExit ==
  /\ closeCalls <= 1
  /\ run_pc # "ended" => closeCalls = 0
  /\ run_pc = "ended" =>
       /\ created > 0 => (closeCalls = 1 /\ ~clientOpen)
       /\ created = 0 => closeCalls = 0

C10_Witness ==
  /\ run_pc = "ended" /\ exitKind = "loop_error"
  /\ created = 1 /\ closeCalls = 1 /\ ~clientOpen

\* What an invocation gives on a handler that has served nothing before.
FreshOutcome(args, response, limit) ==
  IF validate(args, limit) # ""
  THEN Out("ValueError", validate(args, limit), <<>>)
  ELSE try_block(search(limit, GetMaxResults(args.max_results),
                        response.transport, response.data))

\* An ended invocation issued at most one request, gave no text when it failed,
\* and ended as it would have on a fresh handler.
ScopedOutcome ==
  /\ httpCalls <= invoked
  /\ last.op = "invoke" =>
       /\ last.http <= 1
       /\ last.out.kind # "text" => last.out.text = <<>>
       /\ last.out = FreshOutcome(last.args, last.response, max_results_limit)

\* A step in which an invocation fails keeps the configuration and the connection.
FailureKeepsConnection ==
  failures' # failures =>
    /\ max_results_limit' = max_results_limit
    /\ client # 0 => client' = client
    /\ clientOpen => clientOpen'
    /\ closeCalls' = closeCalls

\* C11 (Spec): failures are scoped to one invocation and nothing is retried:
\* every invocation issues at most one HTTP request; a failed invocation, of
\* any kind, returns no partial result, leaves the configuration unchanged and
\* neither closes nor replaces the shared connection; and an invocation made
\* after any number of failed ones ends exactly as it would have without them,
\* for the same arguments and the same backend response.
C11_FailuresScoped == [](ScopedOutcome) /\ [][FailureKeepsConnection]_vars

C11_Witness ==
  /\ last.op = "invoke" /\ last.out.kind = "text"
  /\ last.after >= 1 /\ last.http = 1
  /\ searchCalls = 2 /\ httpCalls = 2
  /\ client = 1 /\ clientOpen

====
